---------------------------- MODULE Spec2Model ----------------------------
(***************************************************************************)
(* The PayPal payment pipeline of WPerfumes (src/app/payments_paypal.py,   *)
(* src/app/routes_payments_admin.py, src/app/models_payments.py).          *)
(*                                                                         *)
(* Money is a Decimal in the code; here it is an integer count of          *)
(* thousandths (10.005 is 10005), and a quantized amount is an integer     *)
(* count of cents (20.01 is 2001).                                         *)
(*                                                                         *)
(* Three specifications share the variables:                               *)
(*   SpecTotal  _compute_items_total on bounded item lists                 *)
(*   SpecToken  the OAuth token cache against a clock                      *)
(*   Spec       the capture / return / webhook / refund handlers, the      *)
(*              provider and the store, interleaved at every provider      *)
(*              call and every database statement                          *)
(***************************************************************************)
EXTENDS Integers, Sequences, FiniteSets, TLC

VARIABLES
    ctItems,      \* SpecTotal: the argument of _compute_items_total
    ctTotal,      \* SpecTotal: its result, in cents
    ctPc,         \* SpecTotal: "input" before the call, "done" after it
    now,          \* time.time(), in whole seconds
    token_cache,  \* the module-level _token_cache dict
    calls,        \* SpecToken: calls of get_paypal_access_token so far
    tk,           \* SpecToken: each caller's position in get_paypal_access_token
    webhook_id,   \* whether PAYPAL_WEBHOOK_ID is set in the environment
    provider,     \* the provider's orders: purchase units, amount, captures
    payments,     \* the payments table, in insertion order
    orders,       \* the orders table, in insertion order
    events,       \* the paypal_webhook_events table, in insertion order
    started,      \* requests received so far
    req           \* Spec: each worker's request and its position in the handler

ctVars == <<ctItems, ctTotal, ctPc>>
clockVars == <<now, calls, tk>>
tokVars == <<now, token_cache, calls, tk>>
storeVars == <<payments, orders, events>>
appVars == <<webhook_id, provider, payments, orders, events, started, req>>

vars == <<ctItems, ctTotal, ctPc, now, token_cache, calls, tk,
          webhook_id, provider, payments, orders, events, started, req>>

-----------------------------------------------------------------------------
(* Bounds *)

MaxItems == 2
MaxQty == 3

\* unit prices a client may send, in thousandths (0.005, 3.333, 9.99, 10.005)
UnitPrices == {0, 5, 3333, 9990, 10005}

-----------------------------------------------------------------------------
(* Decimal helpers *)

Abs(n) == IF n < 0 THEN -n ELSE n

\* Decimal.quantize(Decimal("0.01"), rounding=ROUND_HALF_UP) of a value given
\* in thousandths: the nearest cent, ties away from zero.
QuantizeHalfUp(m) ==
    IF m < 0 THEN -((Abs(m) + 5) \div 10) ELSE (m + 5) \div 10

currency_safe_decimal(value) == QuantizeHalfUp(value)

\* The term one item adds to the total: Decimal(unit_price or "0") times
\* Decimal(quantity or "1"). A quantity of 0 is falsy, so `or "1"` makes it 1.
ItemTerm(it) ==
    LET unit == it.unit_price
        qty == IF it.quantity = 0 THEN 1 ELSE it.quantity
    IN unit * qty

RECURSIVE SumTerms(_)
SumTerms(items) ==
    IF items = <<>> THEN 0
    ELSE ItemTerm(Head(items)) + SumTerms(Tail(items))

compute_items_total(items) == QuantizeHalfUp(SumTerms(items))

-----------------------------------------------------------------------------
(* The OAuth token cache *)

\* `expires_at = time.time() + int(expires_in) - 30`
Margin == 30

\* expires_in values the provider answers with: the margin itself and above it
ExpiresIn == {30, 32}

MaxTime == 5
MaxCalls == 3

\* A bearer token, named by the exchange that issued it: `at` is the time of the
\* exchange and `ttl` its expires_in.
NoToken == [at |-> 0, ttl |-> 0]

\* _token_cache = {}: neither key present
EmptyCache == [token |-> NoToken, has_exp |-> FALSE, expires_at |-> 0]

\* _token_cache.get("expires_at", 0)
CacheExpiresAt(cache) == IF cache.has_exp THEN cache.expires_at ELSE 0

TokenCallers == {1}

TkIdle == [pc |-> "idle", t |-> NoToken, seen |-> NoToken, checked_at |-> 0,
           exchanged |-> FALSE, fresh |-> NoToken, result |-> NoToken]

TokIdle ==
    /\ now = 0
    /\ token_cache = EmptyCache
    /\ calls = 0
    /\ tk = [p \in TokenCallers |-> TkIdle]

\* a request enters get_paypal_access_token
TkCall(p) ==
    /\ tk[p].pc \in {"idle", "returned", "raised"}
    /\ calls < MaxCalls
    /\ calls' = calls + 1
    /\ tk' = [tk EXCEPT ![p] = [TkIdle EXCEPT !.pc = "read_token"]]
    /\ UNCHANGED <<now, token_cache, ctVars, appVars>>

\* _get_cached_token: `t = _token_cache.get("token"); if not t: return None`
TkReadToken(p) ==
    /\ tk[p].pc = "read_token"
    /\ tk' = [tk EXCEPT ![p].t = token_cache.token,
                        ![p].seen = token_cache.token,
                        ![p].pc = IF token_cache.token = NoToken
                                  THEN "exchange" ELSE "check_expiry"]
    /\ UNCHANGED <<now, token_cache, calls, ctVars, appVars>>

\* _get_cached_token: `if time.time() >= expires_at: _token_cache.clear();
\* return None` and otherwise `return t`
TkCheckExpiry(p) ==
    /\ tk[p].pc = "check_expiry"
    /\ IF now >= CacheExpiresAt(token_cache)
       THEN /\ token_cache' = EmptyCache
            /\ tk' = [tk EXCEPT ![p].pc = "exchange", ![p].checked_at = now]
       ELSE /\ token_cache' = token_cache
            /\ tk' = [tk EXCEPT ![p].pc = "returned", ![p].checked_at = now,
                                ![p].result = tk[p].t]
    /\ UNCHANGED <<now, calls, ctVars, appVars>>

\* the POST to /v1/oauth2/token answers with a token and an expires_in
TkExchangeOk(p) ==
    /\ tk[p].pc = "exchange"
    /\ \E ttl \in ExpiresIn :
          tk' = [tk EXCEPT ![p].pc = "store_token", ![p].exchanged = TRUE,
                           ![p].fresh = [at |-> now, ttl |-> ttl]]
    /\ UNCHANGED <<now, token_cache, calls, ctVars, appVars>>

\* the POST fails (transport error, timeout, HTTP error, no access_token):
\* RuntimeError
TkExchangeFail(p) ==
    /\ tk[p].pc = "exchange"
    /\ tk' = [tk EXCEPT ![p].pc = "raised", ![p].exchanged = TRUE]
    /\ UNCHANGED <<now, token_cache, calls, ctVars, appVars>>

cache_expiry_no_margin(t, expires_in) == t + expires_in

\* the value _cache_access_token stores under "expires_at"
cache_expiry(t, expires_in) == t + expires_in - Margin

\* _cache_access_token, first statement: `_token_cache["token"] = token`
TkStoreToken(p) ==
    /\ tk[p].pc = "store_token"
    /\ token_cache' = [token_cache EXCEPT !.token = tk[p].fresh]
    /\ tk' = [tk EXCEPT ![p].pc = "store_expiry"]
    /\ UNCHANGED <<now, calls, ctVars, appVars>>

\* _cache_access_token, second statement, and `return token`
TkStoreExpiry(p) ==
    /\ tk[p].pc = "store_expiry"
    /\ token_cache' = [token_cache EXCEPT !.has_exp = TRUE,
                          !.expires_at = cache_expiry(now, tk[p].fresh.ttl)]
    /\ tk' = [tk EXCEPT ![p].pc = "returned", ![p].result = tk[p].fresh]
    /\ UNCHANGED <<now, calls, ctVars, appVars>>

\* A second passes. The two assignments of _cache_access_token follow the
\* provider's answer within the same second.
Tick ==
    /\ now < MaxTime
    /\ \A p \in DOMAIN tk : tk[p].pc \notin {"store_token", "store_expiry"}
    /\ now' = now + 1
    /\ UNCHANGED <<token_cache, calls, tk, ctVars, appVars>>

-----------------------------------------------------------------------------
(* The provider, the store and the requests *)

MaxRequests == 3

Workers == {"w1", "w2"}

\* O1 is an order of 29.97 USD; O2 is an order whose purchase_units is empty
OrderIds == {"O1", "O2"}
HasPurchaseUnits(o) == o = "O1"
OrderValue(o) == IF o = "O1" THEN 29970 ELSE 0

\* the id the provider gives the capture of order o
CaptureIdOf(o) == IF o = "O1" THEN "CAP1" ELSE "CAP2"

\* None
NoCaptureId == ""
NoPaymentId == 0

\* the item lists a capture request carries: none, 3 x 9.99 and 2 x 10.005
ClientItems ==
    { <<>>,
      <<[unit_price |-> 9990, quantity |-> 3]>>,
      <<[unit_price |-> 10005, quantity |-> 2]>> }

NoOrder == [has_pus |-> FALSE, value |-> 0, captures |-> <<>>]
\* pu_amount is purchase_units[0].amount of the body: <<>> when it has none
NoResp == [id |-> "", status |-> "", captures |-> <<>>, pu_amount |-> <<>>]

ReqIdle == [kind |-> "none", pc |-> "idle", order_id |-> "", items |-> <<>>,
            snap |-> NoOrder, resp |-> NoResp, cap_id |-> NoCaptureId,
            amount |-> 0, out |-> "", payment_id |-> NoPaymentId,
            capture_calls |-> 0,
            event_id |-> "", verification |-> "", target |-> NoPaymentId,
            refund_calls |-> 0, prior |-> NoPaymentId, persist |-> "",
            token |-> NoToken, err |-> ""]

AppIdle ==
    /\ provider = [o \in OrderIds |->
                      [has_pus |-> HasPurchaseUnits(o), value |-> OrderValue(o),
                       captures |-> <<>>]]
    /\ payments = <<>>
    /\ orders = <<>>
    /\ events = <<>>
    /\ started = 0
    /\ req = [w \in Workers |-> ReqIdle]

Min(S) == CHOOSE x \in S : \A y \in S : x <= y

ExistingPaymentNotFound(cid) == NoPaymentId

\* PaymentModel.query.filter_by(provider_capture_id=str(cid)).first(): the id of
\* the row, NoPaymentId when there is none
ExistingPayment(cid) ==
    LET hits == {i \in 1..Len(payments) : payments[i].provider_capture_id = cid}
    IN IF hits = {} THEN NoPaymentId ELSE Min(hits)

\* the first capture of `captures` whose status is COMPLETED, as an index; 0 if none
FirstCompleted(captures) ==
    LET hits == {i \in 1..Len(captures) : captures[i].status = "COMPLETED"}
    IN IF hits = {} THEN 0 ELSE Min(hits)

\* the payment the store holds for a COMPLETED capture of order o, NoPaymentId
\* when it holds none: what a request for o finds done before it arrives
PriorPayment(o) ==
    LET hits == {i \in 1..Len(payments) :
                    \E k \in 1..Len(provider[o].captures) :
                       /\ provider[o].captures[k].status = "COMPLETED"
                       /\ provider[o].captures[k].id = payments[i].provider_capture_id}
    IN IF hits = {} THEN NoPaymentId ELSE Min(hits)

CanStart(w) ==
    /\ req[w].pc \in {"idle", "done"}
    /\ started < MaxRequests

\* the handler returns its response; its locals go with it
Finish(w, out, pid) ==
    [req EXCEPT ![w].pc = "done", ![w].out = out, ![w].payment_id = pid,
                ![w].snap = NoOrder, ![w].resp = NoResp, ![w].amount = 0,
                ![w].token = NoToken]

\* _get_cached_token answers a token
CachedValid == token_cache.token # NoToken /\ now < CacheExpiresAt(token_cache)

\* what each handler answers when get_paypal_access_token raises
AuthFailure(kind) ==
    CASE kind = "capture" -> "auth_failed"
      [] kind = "return" -> "payment_error_page"
      [] kind = "webhook" -> "webhook_verification_error"
      [] OTHER -> "refund_failed"

AfterTokenPersist(kind) == "persist_query"

AfterTokenAgain(kind) == "token"

\* the statement each handler runs after get_paypal_access_token returned
AfterToken(kind) ==
    CASE kind = "webhook" -> "verify"
      [] kind = "refund" -> "refund"
      [] OTHER -> "fetch"

\* POST /paypal/capture-paypal-order with an orderID and optional items
StartCapture(w) ==
    /\ CanStart(w)
    /\ \E o \in OrderIds, items \in ClientItems :
          req' = [req EXCEPT ![w] = [ReqIdle EXCEPT !.kind = "capture", !.pc = "token",
                                        !.order_id = o, !.items = items,
                                        !.prior = PriorPayment(o)]]
    /\ started' = started + 1
    /\ UNCHANGED <<webhook_id, provider, storeVars, tokVars, ctVars>>

\* get_paypal_access_token, answered from the cache
TokenCached(w) ==
    /\ req[w].pc = "token"
    /\ CachedValid
    /\ req' = [req EXCEPT ![w].pc = AfterToken(req[w].kind),
                          ![w].token = token_cache.token]
    /\ UNCHANGED <<webhook_id, provider, storeVars, started, tokVars, ctVars>>

\* get_paypal_access_token, the cache empty or expired: the exchange succeeds
TokenExchanged(w) ==
    /\ req[w].pc = "token"
    /\ ~CachedValid
    /\ \E ttl \in ExpiresIn :
          /\ token_cache' = [token |-> [at |-> now, ttl |-> ttl],
                             has_exp |-> TRUE, expires_at |-> cache_expiry(now, ttl)]
          /\ req' = [req EXCEPT ![w].pc = AfterToken(req[w].kind),
                                ![w].token = [at |-> now, ttl |-> ttl]]
    /\ UNCHANGED <<webhook_id, provider, storeVars, started, clockVars, ctVars>>

\* get_paypal_access_token, the cache empty or expired: the exchange fails
TokenFailed(w) ==
    /\ req[w].pc = "token"
    /\ ~CachedValid
    /\ token_cache' = EmptyCache
    /\ req' = Finish(w, AuthFailure(req[w].kind), NoPaymentId)
    /\ UNCHANGED <<webhook_id, provider, storeVars, started, clockVars, ctVars>>

\* how a provider call fails: raise_for_status raises HTTPError on an error
\* status (a 401 stands for them: no caller looks at the status code), or the
\* request raises for a transport error or a timeout
Errors == {"http_401", "timeout"}

\* _paypal_get(/v2/checkout/orders/{id}) answers the order
FetchOrderOk(w) ==
    /\ req[w].pc = "fetch"
    /\ req' = [req EXCEPT ![w].pc = "validate", ![w].snap = provider[req[w].order_id]]
    /\ UNCHANGED <<webhook_id, provider, storeVars, started, tokVars, ctVars>>

\* _paypal_get raises (HTTP error, transport error, timeout)
FetchOrderFail(w) ==
    /\ req[w].pc = "fetch"
    /\ \E e \in Errors :
          req' = [Finish(w, IF req[w].kind = "capture" THEN "order_fetch_failed"
                            ELSE "payment_error_page", NoPaymentId) EXCEPT ![w].err = e]
    /\ UNCHANGED <<webhook_id, provider, storeVars, started, tokVars, ctVars>>

invalid_order_unchecked(snap) == FALSE

\* `pus = order.get("purchase_units") or []; if not pus:` invalid_order
invalid_order(snap) == ~snap.has_pus

amount_mismatch_unchecked(items, snap) == FALSE

\* the items of the request do not add up to the order's amount
amount_mismatch(items, snap) ==
    /\ items # <<>>
    /\ compute_items_total(items) # currency_safe_decimal(snap.value)

capture_precheck_skipped(snap) == NoPaymentId

\* the pre-check of capture_paypal_order: the payment stored for the first
\* COMPLETED capture of the fetched order, NoPaymentId when the order has no
\* COMPLETED capture or the store has no payment for it
capture_precheck(snap) ==
    LET i == FirstCompleted(snap.captures)
    IN IF i = 0 THEN NoPaymentId ELSE ExistingPayment(snap.captures[i].id)

\* capture_paypal_order between the order fetch and the capture call: parse the
\* amount, reconcile the client's items, look for a stored completed capture
CaptureValidate(w) ==
    /\ req[w].pc = "validate"
    /\ req[w].kind = "capture"
    /\ LET r == req[w]
           existing == capture_precheck(r.snap)
       IN req' =
            IF invalid_order(r.snap) THEN Finish(w, "invalid_order", NoPaymentId)
            ELSE IF amount_mismatch(r.items, r.snap)
                 THEN Finish(w, "amount_mismatch", NoPaymentId)
            ELSE IF existing # NoPaymentId
                 THEN [Finish(w, "already_captured", existing) EXCEPT
                          ![w].cap_id = r.snap.captures[FirstCompleted(r.snap.captures)].id]
            ELSE [req EXCEPT ![w].pc = "capture"]
    /\ UNCHANGED <<webhook_id, provider, storeVars, started, tokVars, ctVars>>

return_precheck_skipped(snap) == 0

\* the pre-check of paypal_return: the first COMPLETED capture of the fetched
\* order, as an index; 0 if none
return_precheck(snap) == FirstCompleted(snap.captures)

\* the browser return flow between the order fetch and the capture call: any
\* COMPLETED capture on the fetched order renders the success page at once
ReturnPrecheck(w) ==
    /\ req[w].pc = "validate"
    /\ req[w].kind = "return"
    /\ LET r == req[w]
           i == return_precheck(r.snap)
       IN req' =
            IF i # 0
            THEN [Finish(w, "payment_successful", NoPaymentId) EXCEPT
                     ![w].cap_id = r.snap.captures[i].id]
            ELSE [req EXCEPT ![w].pc = "capture"]
    /\ UNCHANGED <<webhook_id, provider, storeVars, started, tokVars, ctVars>>

\* what the provider's capture operation leaves on order o: a first capture,
\* COMPLETED or PENDING, when the order has purchase units and none yet
ProviderCaptured(o, status) ==
    IF provider[o].has_pus /\ provider[o].captures = <<>>
    THEN [provider EXCEPT ![o].captures =
             <<[id |-> CaptureIdOf(o), status |-> status, value |-> provider[o].value]>>]
    ELSE provider

\* the first capture of the capture response: its id, None when there is none
response_capture_id(resp) ==
    IF resp.captures = <<>> THEN NoCaptureId ELSE resp.captures[1].id

\* the amount to store, in cents: the first capture's amount, and without a
\* capture the amount of the order fetched before the capture
response_amount(resp, snap) ==
    currency_safe_decimal(IF resp.captures = <<>> THEN snap.value
                          ELSE resp.captures[1].value)

\* paypal_return's amount to store, in cents: the first capture's amount, and
\* without a capture the amount of the capture response's first purchase
\* unit, and "0.00" when it has none
return_amount(resp) ==
    currency_safe_decimal(IF resp.captures # <<>> THEN resp.captures[1].value
                          ELSE IF resp.pu_amount # <<>> THEN resp.pu_amount[1]
                          ELSE 0)

\* amount_decimal as the handler of the request computes it
amount_decimal(kind, resp, snap) ==
    IF kind = "return" THEN return_amount(resp) ELSE response_amount(resp, snap)

\* the body of the capture response, the order as the provider holds it after
\* the capture
capture_body(o, after) ==
    [id |-> o, status |-> "COMPLETED", captures |-> after[o].captures,
     pu_amount |-> IF after[o].has_pus THEN <<after[o].value>> ELSE <<>>]

\* _paypal_post(/v2/checkout/orders/{id}/capture) answers 2xx: a first capture
\* of the order, or the order as captured before
CaptureCallOk(w) ==
    /\ req[w].pc = "capture"
    /\ \E status \in {"COMPLETED", "PENDING"} :
          LET o == req[w].order_id
              after == ProviderCaptured(o, status)
              resp == capture_body(o, after)
          IN /\ provider' = after
             /\ req' = [req EXCEPT ![w].pc = "persist_query",
                                   ![w].resp = resp,
                                   ![w].cap_id = response_capture_id(resp),
                                   ![w].amount = amount_decimal(req[w].kind, resp, req[w].snap),
                                   ![w].capture_calls = @ + 1]
    /\ UNCHANGED <<webhook_id, storeVars, started, tokVars, ctVars>>

\* what each handler answers after the persist step
Captured(kind) == IF kind = "capture" THEN "captured" ELSE "payment_successful"

capture_failure_as_success(kind) == Captured(kind)

\* what each handler answers when the capture call raises
capture_failure(kind) ==
    IF kind = "capture" THEN "capture_failed" ELSE "payment_capture_failed_page"

\* _paypal_post raises: an HTTP error, a transport error or a timeout. The
\* provider may or may not have captured before the request gave up.
CaptureCallFail(w) ==
    /\ req[w].pc = "capture"
    /\ \/ provider' = provider
       \/ provider' = ProviderCaptured(req[w].order_id, "COMPLETED")
    /\ \E e \in Errors :
          req' = [Finish(w, capture_failure(req[w].kind), NoPaymentId) EXCEPT
                     ![w].capture_calls = @ + 1, ![w].err = e]
    /\ UNCHANGED <<webhook_id, storeVars, started, tokVars, ctVars>>

\* _persist_capture_idempotent, the duplicate check: a row that already has
\* this capture id is returned as it is
PersistQuery(w) ==
    /\ req[w].pc = "persist_query"
    /\ LET existing == IF req[w].cap_id # NoCaptureId
                       THEN ExistingPayment(req[w].cap_id) ELSE NoPaymentId
       IN req' = IF existing # NoPaymentId
                 THEN [Finish(w, Captured(req[w].kind), existing) EXCEPT
                          ![w].persist = "existing"]
                 ELSE [req EXCEPT ![w].pc = "persist_insert"]
    /\ UNCHANGED <<webhook_id, provider, storeVars, started, tokVars, ctVars>>

\* order_number = f"PP-{str(provider_order_id)[:60]}"
order_number(provider_order_id) == <<"PP", provider_order_id>>

order_number_unconstrained(number) == TRUE

\* the unique constraint on orders.order_number lets the insert through
order_number_free(number) ==
    \A i \in 1..Len(orders) : orders[i].order_number # number

new_order(r) ==
    [id |-> Len(orders) + 1, order_number |-> order_number(r.resp.id),
     total_amount |-> r.amount, currency |-> "USD", status |-> "paid"]

\* str.lower() on the status values a capture response carries
lower(status) ==
    CASE status = "COMPLETED" -> "completed"
      [] status = "PAYER_ACTION_REQUIRED" -> "payer_action_required"
      [] OTHER -> status

\* status=(capture_resp.get("status") or "completed").lower()
payment_status(resp) == IF resp.status = "" THEN "completed" ELSE lower(resp.status)

new_payment_unlinked(r) ==
    [id |-> Len(payments) + 1, order_id |-> 0, provider |-> "paypal",
     provider_order_id |-> r.resp.id, provider_capture_id |-> r.cap_id,
     amount |-> r.amount, currency |-> "USD", status |-> payment_status(r.resp),
     raw_response |-> [resp |-> r.resp, refunds |-> <<>>]]

\* the Payment of the capture, `order_id=pay_order.id` of the Order just flushed
new_payment(r) ==
    [id |-> Len(payments) + 1, order_id |-> Len(orders) + 1, provider |-> "paypal",
     provider_order_id |-> r.resp.id, provider_capture_id |-> r.cap_id,
     amount |-> r.amount, currency |-> "USD", status |-> payment_status(r.resp),
     raw_response |-> [resp |-> r.resp, refunds |-> <<>>]]

\* _persist_capture_idempotent, the insert: the Order shell and the Payment are
\* committed together
PersistInsert(w) ==
    /\ req[w].pc = "persist_insert"
    /\ order_number_free(order_number(req[w].resp.id))
    /\ orders' = Append(orders, new_order(req[w]))
    /\ payments' = Append(payments, new_payment(req[w]))
    /\ req' = [Finish(w, Captured(req[w].kind), Len(payments) + 1) EXCEPT
                  ![w].persist = "inserted"]
    /\ UNCHANGED <<webhook_id, provider, events, started, tokVars, ctVars>>

\* the insert hits the unique constraint on order_number: IntegrityError,
\* rollback, `return None`
PersistConflict(w) ==
    /\ req[w].pc = "persist_insert"
    /\ ~order_number_free(order_number(req[w].resp.id))
    /\ req' = [Finish(w, Captured(req[w].kind), NoPaymentId) EXCEPT
                  ![w].persist = "conflict"]
    /\ UNCHANGED <<webhook_id, provider, storeVars, started, tokVars, ctVars>>

\* the database fails the flush or the commit: rollback, `return None`
PersistError(w) ==
    /\ req[w].pc = "persist_insert"
    /\ req' = [Finish(w, Captured(req[w].kind), NoPaymentId) EXCEPT
                  ![w].persist = "error"]
    /\ UNCHANGED <<webhook_id, provider, storeVars, started, tokVars, ctVars>>

\* GET /paypal/return?token=<order id>
StartReturn(w) ==
    /\ CanStart(w)
    /\ \E o \in OrderIds :
          req' = [req EXCEPT ![w] = [ReqIdle EXCEPT !.kind = "return", !.pc = "token",
                                        !.order_id = o, !.prior = PriorPayment(o)]]
    /\ started' = started + 1
    /\ UNCHANGED <<webhook_id, provider, storeVars, tokVars, ctVars>>

\* the events the provider delivers, by id, and the type of each
EventIds == {"E1", "E2"}
EventType(e) == IF e = "E1" THEN "PAYMENT.CAPTURE.COMPLETED" ELSE "CUSTOMER.DISPUTE.CREATED"

\* POST /paypal/webhook: with PAYPAL_WEBHOOK_ID set the handler verifies first
StartWebhook(w) ==
    /\ CanStart(w)
    /\ \E e \in EventIds :
          req' = [req EXCEPT ![w] = [ReqIdle EXCEPT !.kind = "webhook", !.event_id = e,
                                        !.pc = IF webhook_id THEN "token" ELSE "event_insert"]]
    /\ started' = started + 1
    /\ UNCHANGED <<webhook_id, provider, storeVars, tokVars, ctVars>>

verification_failed_never(status) == FALSE

\* `if verify.get("verification_status") != "SUCCESS":` verification_failed
verification_failed(status) == status # "SUCCESS"

\* _paypal_post(/v1/notifications/verify-webhook-signature) answers 2xx with a
\* verification_status
VerifyAnswered(w) ==
    /\ req[w].pc = "verify"
    /\ \E status \in {"SUCCESS", "FAILURE"} :
          req' = IF verification_failed(status)
                 THEN [Finish(w, "verification_failed", NoPaymentId) EXCEPT
                          ![w].verification = status]
                 ELSE [req EXCEPT ![w].pc = "event_insert", ![w].verification = status]
    /\ UNCHANGED <<webhook_id, provider, storeVars, started, tokVars, ctVars>>

\* the verification call raises
VerifyError(w) ==
    /\ req[w].pc = "verify"
    /\ \E e \in Errors :
          req' = [Finish(w, "webhook_verification_error", NoPaymentId) EXCEPT
                     ![w].verification = "error", ![w].err = e]
    /\ UNCHANGED <<webhook_id, provider, storeVars, started, tokVars, ctVars>>

new_event(r) ==
    [id |-> Len(events) + 1, event_id |-> r.event_id, event_type |-> EventType(r.event_id)]

\* db.session.add(PayPalWebhookEvent(...)); db.session.commit()
EventInsert(w) ==
    /\ req[w].pc = "event_insert"
    /\ events' = Append(events, new_event(req[w]))
    /\ req' = [Finish(w, "accepted", NoPaymentId) EXCEPT ![w].persist = "inserted"]
    /\ UNCHANGED <<webhook_id, provider, payments, orders, started, tokVars, ctVars>>

\* the commit raises: rollback, and the handler still answers accepted
EventInsertError(w) ==
    /\ req[w].pc = "event_insert"
    /\ req' = [Finish(w, "accepted", NoPaymentId) EXCEPT ![w].persist = "error"]
    /\ UNCHANGED <<webhook_id, provider, storeVars, started, tokVars, ctVars>>

refund_rejection_any_provider(pid) ==
    IF pid \notin 1..Len(payments) THEN "not_found"
    ELSE IF payments[pid].provider_capture_id = NoCaptureId THEN "no_capture_id"
    ELSE ""

\* the answer of api_payment_refund before any provider call, "" when the
\* payment can be refunded
refund_rejection(pid) ==
    IF pid \notin 1..Len(payments) THEN "not_found"
    ELSE IF payments[pid].provider # "paypal" THEN "unsupported_provider"
    ELSE IF payments[pid].provider_capture_id = NoCaptureId THEN "no_capture_id"
    ELSE ""

\* POST /payments-admin/api/payments/<id>/refund: load the payment, check it
StartRefund(w) ==
    /\ CanStart(w)
    /\ \E pid \in 1..(Len(payments) + 1) :
          req' = IF refund_rejection(pid) # ""
                 THEN [req EXCEPT ![w] = [ReqIdle EXCEPT !.kind = "refund", !.target = pid,
                                             !.pc = "done", !.out = refund_rejection(pid)]]
                 ELSE [req EXCEPT ![w] = [ReqIdle EXCEPT !.kind = "refund", !.target = pid,
                                             !.cap_id = payments[pid].provider_capture_id,
                                             !.pc = "token"]]
    /\ started' = started + 1
    /\ UNCHANGED <<webhook_id, provider, storeVars, tokVars, ctVars>>

\* requests.post(/v2/payments/captures/{id}/refund) answers 2xx
RefundCallOk(w) ==
    /\ req[w].pc = "refund"
    /\ req' = [req EXCEPT ![w].pc = "refund_persist", ![w].refund_calls = @ + 1]
    /\ UNCHANGED <<webhook_id, provider, storeVars, started, tokVars, ctVars>>

refund_failure_swallowed(e) == "refund_initiated"

\* `except requests.HTTPError` answers paypal_refund_failed with the provider's
\* error body, `except Exception` answers refund_failed with the error text
refund_failure(e) ==
    IF e = "http_401" THEN "paypal_refund_failed" ELSE "refund_failed"

\* the refund call raises: HTTP error, transport error or timeout
RefundCallFail(w) ==
    /\ req[w].pc = "refund"
    /\ \E e \in Errors :
          req' = [Finish(w, refund_failure(e), NoPaymentId) EXCEPT
                     ![w].refund_calls = @ + 1, ![w].err = e]
    /\ UNCHANGED <<webhook_id, provider, storeVars, started, tokVars, ctVars>>

\* the refund response, as stored
RefundRecord(cid) == [capture_id |-> cid]

\* raw_response as the UPDATE of the refund writes it. The handler assigns
\* `p.raw_response = (p.raw_response or {})` and then appends to "_refunds" in
\* place. A stored capture response is a non-empty dict, so the assignment
\* puts the loaded object back and the append changes the object the session
\* holds as the loaded value too: the JSON column (a plain db.JSON, no
\* MutableDict, no flag_modified) compares equal to its loaded value at flush
\* and is left out of the UPDATE. Only a NULL or empty raw_response is
\* replaced by a new dict, which is written.
refund_raw_response(raw, js) ==
    IF raw.resp = NoResp /\ raw.refunds = <<>>
    THEN [raw EXCEPT !.refunds = Append(@, js)]
    ELSE raw

refunded_payment_rewritten(p, js) ==
    [p EXCEPT !.status = "refunded",
              !.raw_response = [resp |-> NoResp, refunds |-> <<js>>]]

\* the row as the refund commits it
refunded_payment(p, js) ==
    [p EXCEPT !.status = "refunded",
              !.raw_response = refund_raw_response(p.raw_response, js)]

\* `p.status = "refunded"; db.session.add(p); db.session.commit()`
RefundPersist(w) ==
    /\ req[w].pc = "refund_persist"
    /\ payments' = [payments EXCEPT ![req[w].target] =
                       refunded_payment(@, RefundRecord(req[w].cap_id))]
    /\ req' = [Finish(w, "refund_initiated", NoPaymentId) EXCEPT ![w].persist = "committed"]
    /\ UNCHANGED <<webhook_id, provider, orders, events, started, tokVars, ctVars>>

\* the commit raises: rollback, and the handler still answers refund_initiated
RefundPersistError(w) ==
    /\ req[w].pc = "refund_persist"
    /\ req' = [Finish(w, "refund_initiated", NoPaymentId) EXCEPT ![w].persist = "error"]
    /\ UNCHANGED <<webhook_id, provider, storeVars, started, tokVars, ctVars>>

AppInit ==
    /\ webhook_id \in BOOLEAN
    /\ AppIdle
    /\ TokIdle
    /\ ctItems = <<>>
    /\ ctTotal = 0
    /\ ctPc = "input"

Next ==
    \E w \in Workers :
       \/ StartCapture(w)
       \/ StartReturn(w)
       \/ StartWebhook(w)
       \/ StartRefund(w)
       \/ TokenCached(w)
       \/ TokenExchanged(w)
       \/ TokenFailed(w)
       \/ FetchOrderOk(w)
       \/ FetchOrderFail(w)
       \/ CaptureValidate(w)
       \/ ReturnPrecheck(w)
       \/ CaptureCallOk(w)
       \/ CaptureCallFail(w)
       \/ PersistQuery(w)
       \/ PersistInsert(w)
       \/ PersistConflict(w)
       \/ PersistError(w)
       \/ VerifyAnswered(w)
       \/ VerifyError(w)
       \/ EventInsert(w)
       \/ EventInsertError(w)
       \/ RefundCallOk(w)
       \/ RefundCallFail(w)
       \/ RefundPersist(w)
       \/ RefundPersistError(w)

Spec == AppInit /\ [][Next]_vars

\* the steps of the request worker w handles, once it is received
Handle(w) ==
    \/ TokenCached(w)
    \/ TokenExchanged(w)
    \/ TokenFailed(w)
    \/ FetchOrderOk(w)
    \/ FetchOrderFail(w)
    \/ CaptureValidate(w)
    \/ ReturnPrecheck(w)
    \/ CaptureCallOk(w)
    \/ CaptureCallFail(w)
    \/ PersistQuery(w)
    \/ PersistInsert(w)
    \/ PersistConflict(w)
    \/ PersistError(w)
    \/ VerifyAnswered(w)
    \/ VerifyError(w)
    \/ EventInsert(w)
    \/ EventInsertError(w)
    \/ RefundCallOk(w)
    \/ RefundCallFail(w)
    \/ RefundPersist(w)
    \/ RefundPersistError(w)

\* a worker receives one request, of any of the four kinds
Receive(w) ==
    /\ req[w].pc = "idle"
    /\ \/ StartCapture(w)
       \/ StartReturn(w)
       \/ StartWebhook(w)
       \/ StartRefund(w)

\* the requests of the workers, one each, handled side by side
LiveNext == \E w \in Workers : Receive(w) \/ Handle(w)

\* Every worker runs its handler on: a statement of the handler is executed,
\* a provider call returns or raises within its timeout (timeout=15 and
\* timeout=20 on every requests call), a database call returns or raises.
SpecLive == AppInit /\ [][LiveNext]_vars /\ \A w \in Workers : WF_vars(Handle(w))

TotalIdle ==
    /\ ctItems = <<>>
    /\ ctTotal = 0
    /\ ctPc = "input"

TokenInit ==
    /\ TokIdle
    /\ TotalIdle
    /\ webhook_id = FALSE
    /\ AppIdle

TokenNext ==
    \/ \E p \in TokenCallers :
          \/ TkCall(p)
          \/ TkReadToken(p)
          \/ TkCheckExpiry(p)
          \/ TkExchangeOk(p)
          \/ TkExchangeFail(p)
          \/ TkStoreToken(p)
          \/ TkStoreExpiry(p)
    \/ Tick

SpecToken == TokenInit /\ [][TokenNext]_vars

\* two request threads of one process inside get_paypal_access_token: the
\* module-level _token_cache is shared and no lock guards it
RacingCallers == {1, 2}

TokenRaceInit ==
    /\ now = 0
    /\ token_cache = EmptyCache
    /\ calls = 0
    /\ tk = [p \in RacingCallers |-> TkIdle]
    /\ TotalIdle
    /\ webhook_id = FALSE
    /\ AppIdle

TokenRaceNext ==
    \/ \E p \in RacingCallers :
          \/ TkCall(p)
          \/ TkReadToken(p)
          \/ TkCheckExpiry(p)
          \/ TkExchangeOk(p)
          \/ TkExchangeFail(p)
          \/ TkStoreToken(p)
          \/ TkStoreExpiry(p)
    \/ Tick

SpecTokenRace == TokenRaceInit /\ [][TokenRaceNext]_vars

-----------------------------------------------------------------------------
(* SpecTotal *)

Item == [unit_price : UnitPrices, quantity : 0..MaxQty]

ItemLists == UNION {[1..n -> Item] : n \in 0..MaxItems}

TotalInit ==
    /\ ctItems \in ItemLists
    /\ ctTotal = 0
    /\ ctPc = "input"
    /\ TokIdle
    /\ webhook_id = FALSE
    /\ AppIdle

CallComputeTotal ==
    /\ ctPc = "input"
    /\ ctTotal' = compute_items_total(ctItems)
    /\ ctPc' = "done"
    /\ UNCHANGED <<ctItems, tokVars, appVars>>

TotalNext == CallComputeTotal

SpecTotal == TotalInit /\ [][TotalNext]_vars

-----------------------------------------------------------------------------
(* SpecRefund: the refund handler over a payments table that also holds rows
   the capture path does not write *)

\* a stored payment, by provider and capture id (nullable)
StoredPayment(id, prov, cid) ==
    [id |-> id, order_id |-> 0, provider |-> prov,
     provider_order_id |-> "O1", provider_capture_id |-> cid,
     amount |-> 2997, currency |-> "USD", status |-> "completed",
     raw_response |-> [resp |-> [id |-> "O1", status |-> "COMPLETED",
                                  captures |-> <<>>, pu_amount |-> <<>>],
                       refunds |-> <<>>]]

\* a captured PayPal payment, a payment of another provider with and without a
\* capture id, and a PayPal payment that has no capture id
RefundTable ==
    << StoredPayment(1, "paypal", "CAP1"),
       StoredPayment(2, "stripe", "CH1"),
       StoredPayment(3, "paypal", NoCaptureId),
       StoredPayment(4, "stripe", NoCaptureId) >>

RefundInit ==
    /\ TokIdle
    /\ TotalIdle
    /\ webhook_id = FALSE
    /\ provider = [o \in OrderIds |->
                      [has_pus |-> HasPurchaseUnits(o), value |-> OrderValue(o),
                       captures |-> <<>>]]
    /\ payments = RefundTable
    /\ orders = <<>>
    /\ events = <<>>
    /\ started = 0
    /\ req = [w \in Workers |-> ReqIdle]

RefundNext ==
    \E w \in Workers :
       \/ StartRefund(w)
       \/ TokenCached(w)
       \/ TokenExchanged(w)
       \/ TokenFailed(w)
       \/ RefundCallOk(w)
       \/ RefundCallFail(w)
       \/ RefundPersist(w)
       \/ RefundPersistError(w)

SpecRefund == RefundInit /\ [][RefundNext]_vars

-----------------------------------------------------------------------------
(* SpecPersist: capture_paypal_order over the 2xx bodies the capture call can
   answer with *)

\* the status field of a capture response: COMPLETED, another order status of
\* the provider's API, or none
ResponseStatuses == {"COMPLETED", "PAYER_ACTION_REQUIRED", ""}

\* the amount of the capture in a capture response, in thousandths: 19.985,
\* where the order fetched before the capture says 29.97
CaptureValue(o) == IF o = "O1" THEN 19985 ELSE 0

\* the bodies of a 2xx capture response for order o: with a first capture and
\* its amount, or without captures, and then with the purchase unit's amount
\* or without it
CaptureResponses(o) ==
    {[id |-> o, status |-> st,
      captures |-> <<[id |-> CaptureIdOf(o), status |-> "COMPLETED",
                      value |-> CaptureValue(o)]>>,
      pu_amount |-> <<OrderValue(o)>>] : st \in ResponseStatuses}
    \cup
    {[id |-> o, status |-> st, captures |-> <<>>, pu_amount |-> pa] :
        st \in ResponseStatuses, pa \in {<<>>, <<OrderValue(o)>>}}

\* _paypal_post(/v2/checkout/orders/{id}/capture) answers 2xx with one of these
\* bodies; the handler takes the capture id and the amount from it
CaptureAnswered(w) ==
    /\ req[w].pc = "capture"
    /\ \E resp \in CaptureResponses(req[w].order_id) :
          /\ provider' = IF resp.captures = <<>> THEN provider
                         ELSE [provider EXCEPT ![req[w].order_id].captures = resp.captures]
          /\ req' = [req EXCEPT ![w].pc = "persist_query",
                                ![w].resp = resp,
                                ![w].cap_id = response_capture_id(resp),
                                ![w].amount = amount_decimal(req[w].kind, resp, req[w].snap),
                                ![w].capture_calls = @ + 1]
    /\ UNCHANGED <<webhook_id, storeVars, started, tokVars, ctVars>>

PersistInit ==
    /\ webhook_id = FALSE
    /\ AppIdle
    /\ TokIdle
    /\ TotalIdle

PersistNext ==
    \E w \in Workers :
       \/ StartCapture(w)
       \/ StartReturn(w)
       \/ TokenCached(w)
       \/ TokenExchanged(w)
       \/ TokenFailed(w)
       \/ FetchOrderOk(w)
       \/ FetchOrderFail(w)
       \/ CaptureValidate(w)
       \/ ReturnPrecheck(w)
       \/ CaptureAnswered(w)
       \/ CaptureCallFail(w)
       \/ PersistQuery(w)
       \/ PersistInsert(w)
       \/ PersistConflict(w)
       \/ PersistError(w)

SpecPersist == PersistInit /\ [][PersistNext]_vars

-----------------------------------------------------------------------------
(* Properties *)

InPersist == {"capture", "persist_query", "persist_insert"}

\* the payments that hold capture id cid
RowsOfCapture(cid) == {i \in 1..Len(payments) : payments[i].provider_capture_id = cid}

C2_CaptureIdUnique ==
    \A i, j \in 1..Len(payments) :
       (i # j /\ payments[i].provider_capture_id = payments[j].provider_capture_id)
          => payments[i].provider_capture_id = NoCaptureId

\* a second insert of a stored capture id was attempted and refused
C2_Witness ==
    \E w \in Workers :
       /\ req[w].persist = "conflict"
       /\ req[w].cap_id # NoCaptureId
       /\ RowsOfCapture(req[w].cap_id) # {}

\* C3: of two concurrent capture requests for one order that both reach the
\* insert, one row results and the one whose insert is refused answers with
\* the id of the winner's payment, not with an error or an empty payment id.
C3_LoserReturnsWinner ==
    \A w1, w2 \in Workers :
       ( /\ req[w1].kind = "capture" /\ req[w2].kind = "capture"
         /\ req[w1].order_id = req[w2].order_id
         /\ req[w1].pc = "done" /\ req[w2].pc = "done"
         /\ req[w1].persist = "inserted"
         /\ req[w2].persist = "conflict" )
       => /\ Cardinality(RowsOfCapture(req[w2].cap_id)) = 1
          /\ req[w2].payment_id # NoPaymentId
          /\ req[w2].payment_id = req[w1].payment_id

\* the items of request r do not add up to the amount of its order
ClientMismatch(r) ==
    /\ r.items # <<>>
    /\ compute_items_total(r.items) # QuantizeHalfUp(provider[r.order_id].value)

\* C4: a capture request whose non-empty items do not add up to the order's
\* amount (both to the cent, no tolerance) answers amount_mismatch once the
\* order is fetched, makes no provider capture call and writes no row; a
\* request is never answered amount_mismatch when the totals are equal.
C4_AmountMismatchBlocksCapture ==
    \A w \in Workers :
       LET r == req[w] IN
       r.kind = "capture" =>
          /\ ClientMismatch(r) =>
                /\ r.capture_calls = 0
                /\ r.pc \notin InPersist
                /\ r.persist = ""
                /\ r.out \notin {"captured", "already_captured"}
                /\ ( /\ r.pc = "done"
                     /\ provider[r.order_id].has_pus
                     /\ r.out \notin {"auth_failed", "order_fetch_failed"} )
                   => r.out = "amount_mismatch"
          /\ r.out = "amount_mismatch" => ClientMismatch(r)

\* one request was refused for its total while one with matching items persisted
C4_Witness ==
    \E w1, w2 \in Workers :
       /\ req[w1].kind = "capture" /\ req[w1].out = "amount_mismatch"
       /\ req[w2].kind = "capture" /\ req[w2].items # <<>>
       /\ req[w2].persist = "inserted"

\* the sum of unit_price x quantity over the items, in thousandths
RECURSIVE ExactSum(_)
ExactSum(items) ==
    IF items = <<>> THEN 0
    ELSE Head(items).unit_price * Head(items).quantity + ExactSum(Tail(items))

\* C5: the total is the exact sum of unit_price x quantity over all items,
\* rounded half-up to the cent once, on the sum.
C5_TotalIsRoundedExactSum ==
    ctPc = "done" => ctTotal = QuantizeHalfUp(ExactSum(ctItems))

\* the time from which a token is no longer served from the cache
Deadline(t) == t.at + t.ttl - Margin

\* C6: a call that finds a token fetched at t with expires_in E answers it
\* from the cache, without an exchange, exactly when the clock it reads is
\* before t + E - 30; at or after it, and with no token cached, it exchanges.
C6_TokenRefreshBoundary ==
    \A p \in TokenCallers :
       LET c == tk[p] IN
       /\ (c.pc = "returned" /\ ~c.exchanged) =>
             /\ c.seen # NoToken
             /\ c.result = c.seen
             /\ c.checked_at < Deadline(c.seen)
       /\ (c.exchanged \/ c.pc \in {"exchange", "store_token", "store_expiry"}) =>
             (c.seen = NoToken \/ c.checked_at >= Deadline(c.seen))
       /\ (c.pc = "returned" /\ c.exchanged) =>
             (c.result = c.fresh /\ c.result # NoToken)

\* a call at the very second of the deadline exchanged, and the last second
\* before a deadline exists (the cached token outlives the margin)
C6_Witness ==
    \E p \in TokenCallers :
       /\ tk[p].pc = "returned"
       /\ tk[p].exchanged
       /\ tk[p].seen # NoToken
       /\ Deadline(tk[p].seen) > tk[p].seen.at
       /\ tk[p].checked_at = Deadline(tk[p].seen)

\* C7: with a webhook id configured, a webhook request reaches the insert of
\* its WebhookEvent row, inserts it or answers accepted only after the
\* verification call answered SUCCESS; after any other answer, or a failed
\* call, it writes nothing and answers a verification failure.
C7_VerifiedEventsOnly ==
    webhook_id =>
       \A w \in Workers :
          LET r == req[w] IN
          r.kind = "webhook" =>
             /\ (r.pc = "event_insert" \/ r.out = "accepted" \/ r.persist # "")
                   => r.verification = "SUCCESS"
             /\ (r.pc = "done" /\ r.verification # "SUCCESS") =>
                   /\ r.out \in {"verification_failed", "webhook_verification_error"}
                   /\ r.persist = ""

\* one event was refused for its signature while a verified one was stored
C7_Witness ==
    /\ webhook_id
    /\ \E w1, w2 \in Workers :
          /\ req[w1].kind = "webhook" /\ req[w1].verification = "FAILURE"
          /\ req[w1].out = "verification_failed"
          /\ req[w2].kind = "webhook" /\ req[w2].persist = "inserted"

\* C8: at most one WebhookEvent row exists per provider event id.
C8_OneRowPerEventId ==
    \A i, j \in 1..Len(events) :
       events[i].event_id = events[j].event_id => i = j

\* C9: a capture request for an order without purchase units answers
\* invalid_order once the order is fetched, makes no provider capture call
\* and writes no Payment row.
C9_NoPurchaseUnits ==
    \A w \in Workers :
       LET r == req[w] IN
       r.kind = "capture" =>
          /\ ~provider[r.order_id].has_pus =>
                /\ r.capture_calls = 0
                /\ r.pc \notin InPersist
                /\ r.persist = ""
                /\ (r.pc = "done" /\ r.out \notin {"auth_failed", "order_fetch_failed"})
                      => r.out = "invalid_order"
          /\ r.out = "invalid_order" => ~provider[r.order_id].has_pus

C9_Witness ==
    \E w \in Workers :
       /\ req[w].kind = "capture"
       /\ req[w].pc = "done"
       /\ req[w].out = "invalid_order"
       /\ payments = <<>>

\* C10: the step that commits a successful refund leaves the payment's
\* capture id, order id, amount and currency and the stored capture response
\* as they were, appends exactly one refund record to the refund list of
\* raw_response, and sets the status to refunded.
C10_RefundAppendsOneRecord ==
    [][\A w \in Workers :
          (req[w].pc = "refund_persist" /\ req'[w].persist = "committed") =>
             LET i == req[w].target
                 before == payments[i]
                 after == payments'[i]
             IN /\ after.provider_capture_id = before.provider_capture_id
                /\ after.provider_order_id = before.provider_order_id
                /\ after.amount = before.amount
                /\ after.currency = before.currency
                /\ after.raw_response.resp = before.raw_response.resp
                /\ after.status = "refunded"
                /\ Len(after.raw_response.refunds) = Len(before.raw_response.refunds) + 1
      ]_vars

\* C11: the step in which the provider's refund call fails (an HTTP error, a
\* transport error or a timeout) changes no Payment row, status and audit
\* trail included, and ends the request with a refund failure: the HTTP error
\* as paypal_refund_failed with the provider's error body, the others as
\* refund_failed with the error text.
C11_RefundFailureLeavesRow ==
    [][\A w \in Workers :
          (req[w].pc = "refund" /\ req'[w].err # "") =>
             /\ payments' = payments
             /\ req'[w].pc = "done"
             /\ req'[w].persist = ""
             /\ req'[w].out \in {"paypal_refund_failed", "refund_failed"}
             /\ req'[w].err = "http_401" => req'[w].out = "paypal_refund_failed"
      ]_vars

\* a refund of a completed payment failed at the provider
C11_Witness ==
    \E w \in Workers :
       /\ req[w].kind = "refund"
       /\ req[w].refund_calls = 1
       /\ req[w].err = "http_401"
       /\ req[w].out = "paypal_refund_failed"
       /\ payments[req[w].target].status = "completed"
       /\ payments[req[w].target].raw_response.refunds = <<>>

\* C12: a refund request for a payment whose provider is not paypal answers
\* unsupported_provider, and one for a paypal payment whose capture id is null
\* or empty answers no_capture_id; either way the request ends at once, makes
\* no provider refund call, and the row stays as it was stored. Neither answer
\* is given to a request for any other payment.
C12_RefundRejections ==
    \A w \in Workers :
       LET r == req[w] IN
       (r.kind = "refund" /\ r.target \in 1..Len(payments)) =>
          LET p == payments[r.target] IN
          /\ p.provider # "paypal" =>
                /\ r.pc = "done" /\ r.out = "unsupported_provider"
                /\ r.refund_calls = 0 /\ r.persist = "" /\ r.token = NoToken
                /\ p = RefundTable[r.target]
          /\ (p.provider = "paypal" /\ p.provider_capture_id = NoCaptureId) =>
                /\ r.pc = "done" /\ r.out = "no_capture_id"
                /\ r.refund_calls = 0 /\ r.persist = "" /\ r.token = NoToken
                /\ p = RefundTable[r.target]
          /\ r.out = "unsupported_provider" => p.provider # "paypal"
          /\ r.out = "no_capture_id" =>
                (p.provider = "paypal" /\ p.provider_capture_id = NoCaptureId)

\* both rejections were given after the captured paypal payment was refunded
C12_Witness ==
    /\ payments[1].status = "refunded"
    /\ payments[2] = RefundTable[2]
    /\ payments[3] = RefundTable[3]
    /\ \E w1, w2 \in Workers :
          /\ req[w1].kind = "refund" /\ req[w1].out = "unsupported_provider"
          /\ req[w1].target = 2
          /\ req[w2].kind = "refund" /\ req[w2].out = "no_capture_id"
          /\ req[w2].target = 3

\* the step of worker w makes a provider capture call or ends a persist attempt
CapturesOrPersists(w) ==
    \/ req'[w].capture_calls > req[w].capture_calls
    \/ req[w].persist = "" /\ req'[w].persist # ""
    \/ req[w].pc \in InPersist /\ payments' # payments

\* C13: a return request makes a provider capture call, or goes on to write a
\* Payment row, only when the order it fetched had no COMPLETED capture; an
\* order that has a COMPLETED capture when the request arrives still has it
\* at the fetch, so no number of return requests captures it again or adds a
\* row for it.
C13_ReturnNeverDoubleCaptures ==
    [][\A w \in Workers :
          (req[w].kind = "return" /\ req[w].pc # "done" /\ CapturesOrPersists(w)) =>
             /\ FirstCompleted(req[w].snap.captures) = 0
             /\ req[w].prior = NoPaymentId
      ]_vars

\* two return requests for an order captured and stored before they arrived
\* both rendered the success page without a capture call, and one row exists
C13_Witness ==
    /\ Len(payments) = 1
    /\ \A w \in Workers :
          /\ req[w].kind = "return"
          /\ req[w].pc = "done"
          /\ req[w].prior = 1
          /\ req[w].out = "payment_successful"
          /\ req[w].capture_calls = 0
          /\ req[w].persist = ""

\* C14: when a request ends on a provider call that was answered 401, the
\* cache no longer serves the token the request used (the next
\* get_paypal_access_token exchanges), and the request made the failed call
\* at most twice.
C14_UnauthorizedInvalidatesToken ==
    [][\A w \in Workers :
          (req[w].pc # "done" /\ req'[w].pc = "done" /\ req'[w].err = "http_401") =>
             /\ ~ ( /\ token_cache'.token = req[w].token
                    /\ now' < CacheExpiresAt(token_cache') )
             /\ req'[w].capture_calls <= 2
             /\ req'[w].refund_calls <= 2
      ]_vars

\* C15: callers that race into get_paypal_access_token while the cache holds
\* no valid token converge on one exchange: at no time have two callers each
\* obtained a token of their own from the provider that is still to be cached.
C15_SingleExchangeUnderRace ==
    \A p, q \in DOMAIN tk :
       ( /\ tk[p].pc \in {"store_token", "store_expiry"}
         /\ tk[q].pc \in {"store_token", "store_expiry"} )
       => p = q

\* C16: with no webhook id configured, a webhook request makes no verification
\* call and fetches no token, and it ends with its event stored and the answer
\* accepted, whatever the event.
C16_UnverifiedWebhookAccepted ==
    ~webhook_id =>
       \A w \in Workers :
          LET r == req[w] IN
          r.kind = "webhook" =>
             /\ r.pc \in {"event_insert", "done"}
             /\ r.verification = ""
             /\ r.token = NoToken
             /\ r.err = ""
             /\ r.pc = "done" =>
                   /\ r.out = "accepted"
                   /\ \E i \in 1..Len(events) : events[i].event_id = r.event_id

\* C17: a capture request makes the provider capture call only when the order
\* it fetched has no capture with status COMPLETED, whether or not the store
\* holds a payment for that capture.
C17_CaptureOnlyWithoutCompleted ==
    [][\A w \in Workers :
          ( /\ req[w].kind = "capture"
            /\ req[w].pc = "capture"
            /\ req'[w].capture_calls > req[w].capture_calls )
          => FirstCompleted(req[w].snap.captures) = 0
      ]_vars

\* C18: the duplicate check of _persist_capture_idempotent, run with a capture
\* id that a Payment row already holds, returns the id of that row and writes
\* nothing: no Payment and no Order is changed or added, whatever the call
\* passed in.
C18_UpsertReturnsExistingUnchanged ==
    [][\A w \in Workers :
          ( /\ req[w].pc = "persist_query"
            /\ req[w].cap_id # NoCaptureId
            /\ RowsOfCapture(req[w].cap_id) # {}
            /\ req'[w] # req[w] )
          => /\ req'[w].pc = "done"
             /\ req'[w].persist = "existing"
             /\ req'[w].payment_id \in RowsOfCapture(req[w].cap_id)
             /\ payments' = payments
             /\ orders' = orders
      ]_vars

\* the call found the row of its capture already refunded, where it would have
\* written status completed, and left it so
C18_Witness ==
    \E w \in Workers :
       /\ req[w].persist = "existing"
       /\ req[w].payment_id # NoPaymentId
       /\ payments[req[w].payment_id].provider_capture_id = req[w].cap_id
       /\ payments[req[w].payment_id].status = "refunded"

\* the payments that reference order i
PaymentsOfOrder(i) == {k \in 1..Len(payments) : payments[k].order_id = orders[i].id}

\* C19: in every reachable state each Order row of the capture path is
\* referenced by exactly one Payment row and each Payment row references one
\* Order row that exists, also after a persist attempt that failed or lost to
\* a conflict: the two are written together or not at all, once per capture
\* that is persisted.
C19_OrderAndPaymentAtomic ==
    /\ Len(orders) = Len(payments)
    /\ \A i \in 1..Len(orders) :
          /\ orders[i].id = i
          /\ Cardinality(PaymentsOfOrder(i)) = 1
    /\ \A k \in 1..Len(payments) :
          /\ payments[k].order_id \in 1..Len(orders)
          /\ orders[payments[k].order_id].order_number
                = order_number(payments[k].provider_order_id)

\* one persist attempt wrote its pair while one failed and one lost to the
\* conflict, and no Order shell was left behind
C19_Witness ==
    /\ Len(orders) = 1
    /\ Len(payments) = 1
    /\ \E w1, w2 \in Workers :
          /\ req[w1].kind \in {"capture", "return"} /\ req[w1].persist = "conflict"
          /\ req[w2].kind \in {"capture", "return"} /\ req[w2].persist = "error"

\* C20: a capture request whose provider capture call failed (an HTTP error, a
\* transport error or a timeout) answers capture_failed, never a success
\* status, and makes no persist attempt: it writes no Payment or Order row
\* and returns no payment id. Only such a request answers capture_failed.
C20_CaptureFailureWritesNothing ==
    \A w \in Workers :
       LET r == req[w] IN
       r.kind = "capture" =>
          /\ (r.err # "" /\ r.capture_calls > 0) =>
                /\ r.pc = "done"
                /\ r.out = "capture_failed"
                /\ r.persist = ""
                /\ r.payment_id = NoPaymentId
          /\ r.out = "capture_failed" => (r.err # "" /\ r.capture_calls = 1)

\* the capture call timed out after the provider had captured: the request
\* answered capture_failed and the store holds no row
C20_Witness ==
    \E w \in Workers :
       /\ req[w].kind = "capture"
       /\ req[w].err = "timeout"
       /\ req[w].out = "capture_failed"
       /\ FirstCompleted(provider[req[w].order_id].captures) # 0
       /\ payments = <<>>
       /\ orders = <<>>

\* capture_paypal_order, called without items on fetched order snap, goes on to
\* the provider capture call
CaptureWouldCall(snap) ==
    /\ ~invalid_order(snap)
    /\ ~amount_mismatch(<<>>, snap)
    /\ capture_precheck(snap) = NoPaymentId

\* paypal_return on fetched order snap goes on to the provider capture call
ReturnWouldCall(snap) == return_precheck(snap) = 0

\* C21: on every order a request has fetched (without purchase units, without
\* captures, with a COMPLETED capture the store holds or does not hold), the
\* return flow goes on to the provider capture call exactly when
\* capture_paypal_order without items does; the persist step behind the call
\* is the same for both.
C21_ReturnFollowsCapture ==
    \A w \in Workers :
       req[w].pc = "validate" =>
          (ReturnWouldCall(req[w].snap) <=> CaptureWouldCall(req[w].snap))

\* the values the status column is documented to take
PaymentStatuses == {"created", "completed", "failed", "refunded"}

\* C22: in every reachable state the status of every Payment row is one of
\* created, completed, failed, refunded, whatever status the capture response
\* carried when the row was written.
C22_PaymentStatusDomain ==
    \A i \in 1..Len(payments) : payments[i].status \in PaymentStatuses

\* sequence a is a prefix of sequence b
IsPrefix(a, b) == Len(a) <= Len(b) /\ \A k \in 1..Len(a) : a[k] = b[k]

\* row `after` is row `before` but for what a refund may change: the status,
\* now refunded, and refund records appended to the audit trail
OnlyRefunded(before, after) ==
    /\ after.status = "refunded"
    /\ after.raw_response.resp = before.raw_response.resp
    /\ IsPrefix(before.raw_response.refunds, after.raw_response.refunds)
    /\ [after EXCEPT !.status = before.status,
                     !.raw_response = before.raw_response] = before

\* C23: no step of any capture, return, refund or webhook request, failed and
\* rolled-back ones included, removes a Payment or a WebhookEvent row or
\* changes a WebhookEvent row; a Payment row changes only in the commit of a
\* refund of that row, and then only in its status and by refund records
\* appended to its audit trail.
C23_RowsAreNeverDeleted ==
    [][ /\ Len(payments') >= Len(payments)
        /\ Len(events') >= Len(events)
        /\ \A i \in 1..Len(events) : events'[i] = events[i]
        /\ \A i \in 1..Len(payments) :
              \/ payments'[i] = payments[i]
              \/ /\ \E w \in Workers : req[w].pc = "refund_persist" /\ req[w].target = i
                 /\ OnlyRefunded(payments[i], payments'[i])
      ]_vars

\* a payment was refunded and an event stored beside it, both still there
\* after a later request
C23_Witness ==
    /\ Len(payments) = 1
    /\ payments[1].status = "refunded"
    /\ payments[1].raw_response.resp # NoResp
    /\ Len(events) = 1
    /\ started = 3
    /\ \A w \in Workers : req[w].pc = "done"

\* C24: two refund requests for one captured payment, both answered 2xx by
\* the provider and both committed, each made a provider refund call (the
\* second was not refused for the status refunded), and the audit trail of
\* the payment holds two refund records.
C24_RefundTwiceTwoRecords ==
    \A w1, w2 \in Workers :
       ( /\ w1 # w2
         /\ req[w1].kind = "refund" /\ req[w2].kind = "refund"
         /\ req[w1].target = req[w2].target
         /\ req[w1].persist = "committed" /\ req[w2].persist = "committed" )
       => /\ req[w1].refund_calls = 1
          /\ req[w2].refund_calls = 1
          /\ payments[req[w1].target].status = "refunded"
          /\ Len(payments[req[w1].target].raw_response.refunds) = 2

\* the answers of the request paths that end before or at a failed capture
NotCapturedAnswers ==
    {"auth_failed", "order_fetch_failed", "invalid_order", "amount_mismatch",
     "capture_failed", "already_captured", "payment_error_page",
     "payment_capture_failed_page"}

\* C25: a Payment row is written only by a capture or return request that is
\* at its insert after its own provider capture call for that order returned
\* a response, and the row holds that response; a request that ended on a
\* failed fetch, an invalid order, an amount mismatch, a failed capture or a
\* pre-check hit made no persist attempt.
C25_PersistedOnlyAfterCapture ==
    [][ /\ Len(payments') > Len(payments) =>
              \E w \in Workers :
                 /\ req[w].kind \in {"capture", "return"}
                 /\ req[w].pc = "persist_insert"
                 /\ req[w].capture_calls = 1
                 /\ req[w].err = ""
                 /\ req[w].resp # NoResp
                 /\ req[w].resp.id = req[w].order_id
                 /\ req'[w].persist = "inserted"
                 /\ payments'[Len(payments')].provider_order_id = req[w].order_id
                 /\ payments'[Len(payments')].raw_response.resp = req[w].resp
        /\ \A w \in Workers :
              ( /\ req'[w].kind \in {"capture", "return"}
                /\ \/ req'[w].out \in NotCapturedAnswers
                   \/ req'[w].capture_calls = 0 )
              => /\ req'[w].persist = ""
                 /\ req'[w].pc \notin {"persist_query", "persist_insert"}
      ]_vars

\* one request wrote the row of its capture while another was refused for its
\* total and wrote nothing
C25_Witness ==
    \E w1, w2 \in Workers :
       /\ req[w1].kind = "return" /\ req[w1].persist = "inserted"
       /\ req[w1].capture_calls = 1
       /\ payments[req[w1].payment_id].provider_order_id = req[w1].order_id
       /\ req[w2].kind = "capture" /\ req[w2].out = "amount_mismatch"
       /\ Len(payments) = 1

\* C26: every capture, return, webhook and refund request that is received
\* ends with a response, given that each provider call returns or times out;
\* no request makes a provider capture or refund call more than once.
C26_EveryRequestCompletes ==
    /\ \A w \in Workers :
          (req[w].pc \notin {"idle", "done"}) ~> (req[w].pc = "done")
    /\ [](\A w \in Workers : req[w].capture_calls <= 1 /\ req[w].refund_calls <= 1)

\* every worker's request was received and answered: a capture that called
\* the provider, and the refund of the payment it stored
C26_Witness ==
    /\ \A w \in Workers : req[w].pc = "done" /\ req[w].out # ""
    /\ \E w \in Workers : req[w].kind = "refund" /\ req[w].out = "refund_initiated"
    /\ \E w \in Workers : req[w].kind = "capture" /\ req[w].out = "captured"

\* C27: under any interleaving of callers, a call answered from the cache
\* returns the token the cache held with the expiry it was checked against: a
\* token whose own deadline (fetch time + expires_in - 30) is still ahead at
\* the time of the check.
C27_CachedTokenWithinItsDeadline ==
    \A p \in DOMAIN tk :
       (tk[p].pc = "returned" /\ ~tk[p].exchanged) =>
          /\ tk[p].result # NoToken
          /\ tk[p].checked_at < Deadline(tk[p].result)

\* C28: a capture or return request that reports a successful capture of a
\* capture id (captured, the success page) returns the id of a Payment row
\* that holds this capture id.
C28_SuccessImpliesRow ==
    \A w \in Workers :
       LET r == req[w] IN
       ( /\ r.kind \in {"capture", "return"}
         /\ r.pc = "done"
         /\ r.out \in {"captured", "payment_successful"}
         /\ r.cap_id # NoCaptureId )
       => /\ r.payment_id # NoPaymentId
          /\ r.payment_id \in RowsOfCapture(r.cap_id)

\* the amount the claim prescribes for the payment of request r: the first
\* capture's amount of the capture response, rounded half-up to cents, and
\* the amount of the order fetched before the capture when the response
\* carries no capture
PrescribedAmount(r) ==
    IF r.resp.captures # <<>> THEN QuantizeHalfUp(r.resp.captures[1].value)
    ELSE QuantizeHalfUp(r.snap.value)

\* C29: the step that persists a new Payment stores, on the Payment and on
\* its Order shell, the amount of the first capture of the capture response
\* rounded half-up to cents, or the pre-capture order amount when the response
\* carries no capture amount, in the currency of that amount; never an amount
\* computed from the client's items.
C29_StoredAmountFromCapture ==
    [][\A w \in Workers :
         ( /\ req[w].pc = "persist_insert"
           /\ req'[w].pc = "done"
           /\ Len(payments') = Len(payments) + 1 )
         => LET p == payments'[Len(payments')]
                o == orders'[Len(orders')]
            IN /\ p.amount = PrescribedAmount(req[w])
               /\ p.currency = "USD"
               /\ o.id = p.order_id
               /\ o.total_amount = p.amount
               /\ o.currency = p.currency]_vars

\* C30: a webhook request answered accepted has its event in the store, a row
\* with the event's id and type; a request whose event write failed is not
\* answered accepted.
C30_AcceptedImpliesEventRow ==
    \A w \in Workers :
       LET r == req[w] IN
       (r.kind = "webhook" /\ r.pc = "done" /\ r.out = "accepted")
       => /\ r.persist # "error"
          /\ \E i \in 1..Len(events) :
                /\ events[i].event_id = r.event_id
                /\ events[i].event_type = EventType(r.event_id)


=============================================================================
